---------------------------- MODULE Spec2Model ----------------------------
(***************************************************************************)
(* The daily schedule timer of the AC timer sketch (class Timer of         *)
(* Classes.h, driven by dehumid.ino).  A Timer holds an array of Sched     *)
(* entries (schedTime as hhmm, schedState), the index of the schedule in   *)
(* effect (m_curSched, -1 before the first run), and the output state      *)
(* (m_state).  run() resolves the schedule in effect for a time and calls  *)
(* the callback when a new schedule takes effect; toggle() overrides the   *)
(* output; toggleMode() changes between automatic and manual mode.         *)
(***************************************************************************)
EXTENDS Integers, FiniteSets, Sequences, TLC

\* ------------------------------------------------------------------ bounds

\* The longest schedule array the model constructs a Timer with.
MaxSched == 3

\* History counters (overrides in a row, evaluations since an override)
\* saturate at this value; they restrict no behaviour.
MaxCount == 2

\* The 1 Hz ticks the sketch is followed for after it starts: enough for the
\* clock to pass the time of a schedule.
MaxTicks == 4

\* The 1 Hz ticks the sketch is followed for when the button is pushed in
\* automatic mode only: enough for the clock to enter a minute and to leave it
\* again.
MaxHold == 62

\* The largest value of the clock when its accesses are followed step by step.
MaxIsr == 9

\* --------------------------------------------------------------- constants

\* Initial value of m_curSched: no schedule in effect yet.
NoSched == -1

\* The schedule times (hhmm) the model builds schedules from; 1400 and 1900
\* are those of the deployed schedule.
SchedTimes == {1000, 1400, 1900}

\* Clock readings <<hour, minute>> the model calls run() with: the minute
\* before and the minute of each schedule time, and the two ends of the day.
Clock ==
    {<<0, 0>>, <<9, 59>>, <<10, 0>>, <<13, 59>>, <<14, 0>>, <<18, 59>>,
     <<19, 0>>, <<23, 59>>}

\* ---------------------------------------------------------------- state

VARIABLES
    sched,          \* Timer::m_sched: the schedule array, indexed 0..m_nsched-1
    m_nsched,       \* Timer::m_nsched
    m_curSched,     \* Timer::m_curSched
    m_state,        \* Timer::m_state
    m_manual,       \* the mode: TRUE in manual mode
    ledIndicator,   \* output pin: the timer output indicator
    ssr,            \* output pin: the solid-state relay control
    lastOp,         \* history: the operation made last
    lastArgs,       \* history: the arguments of the last operation (<<t>> for run)
    curSched,       \* history: run()'s local curSched at the end of the last run
    cbCount,        \* history: the callbacks the last operation made
    delivered,      \* history: <<v>>, v the value last passed to the callback
    ret,            \* history: what the last operation returned
    ran,            \* history: run() has been called
    prev,           \* history: the Timer as it was before the last operation
    sameT,          \* history: the last two operations were run() with one time
    ovrToggles,     \* history: toggles since a schedule last took effect
    ovrEvals,       \* history: runs since the toggle counted last by ovrToggles
    ovrVal          \* history: the state the last toggle set

\* The sketch (dehumid.ino): the clock, loop() and the button.
VARIABLES
    isrUTC,         \* the ISR's copy of the current time in UTC
    pc,             \* where loop() is
    loopT,          \* loop()'s t: the time getUTC() returned
    local,          \* loop()'s local: t in local time
    minLast,        \* loop()'s static minLast
    btnPin,         \* the push button is held down
    btnState,       \* btnOverride: the state its last read() found
    btnChanged,     \* btnOverride: its last read() found a new state
    btnLong,        \* btnOverride: 1000 ms have passed since its state changed
    ledManual,      \* output pin: the manual mode indicator
    ticked,         \* the clock has ticked during this pass of loop()
    loopEv,         \* history: what loop() did last to the timer
    runClock,       \* history: the clock's local hhmm when loop() last called run()
    ranInMinute,    \* history: run() was called with a time of the clock's minute
    enteredByTick,  \* history: a tick brought the clock into its minute
    missedMinute    \* history: a tick left a minute entered by a tick, never run

\* The accesses to the clock (dehumid.ino), step by step.
VARIABLES
    intEnabled,     \* the processor's global interrupt enable
    tickPending,    \* the 1 Hz interrupt is raised and not yet served
    accPc,          \* where getUTC() or setUTC() is
    utcLo,          \* utc of getUTC() or setUTC(): its low part
    utcHi,          \* utc of getUTC() or setUTC(): its high part
    got,            \* history: what the last getUTC() since a setUTC() returned
    gotBefore,      \* history: what the getUTC() before that one returned
    heldAtCli,      \* history: isrUTC at the last noInterrupts()
    heldAtSei,      \* history: isrUTC at the last interrupts()
    tickInAccess,   \* history: incrementTime() ran inside getUTC() or setUTC()
    accLast         \* history: the access that returned last

timerVars == <<sched, m_nsched, m_curSched, m_state, m_manual>>
pinVars == <<ledIndicator, ssr>>
histVars == <<lastOp, lastArgs, curSched, cbCount, delivered, ret, ran, prev, sameT,
              ovrToggles, ovrEvals, ovrVal>>
engineVars == <<sched, m_nsched, m_curSched, m_state, m_manual, ledIndicator,
                ssr, lastOp, lastArgs, curSched, cbCount, delivered, ret, ran,
                prev, sameT, ovrToggles, ovrEvals, ovrVal>>
clockVars == <<isrUTC, ranInMinute, enteredByTick, missedMinute>>
buttonVars == <<btnPin, btnState, btnChanged, btnLong>>
loopVars == <<isrUTC, pc, loopT, local, minLast, btnPin, btnState, btnChanged,
              btnLong, ledManual, ticked, loopEv, runClock, ranInMinute,
              enteredByTick, missedMinute>>
\* History of the push button's gestures.
VARIABLES
    gesture         \* history: the press read() found last, and what loop() did for it

isrVars == <<intEnabled, tickPending, accPc, utcLo, utcHi, got, gotBefore,
             heldAtCli, heldAtSei, tickInAccess, accLast>>
vars == <<engineVars, loopVars, isrVars, gesture>>

\* ------------------------------------------------------------- schedules

\* struct Sched
Sched == [schedTime : SchedTimes, schedState : BOOLEAN]

\* "The array of Sched objects must be in ascending order by time"
IsAscending(a, n) ==
    \A i \in 0..(n-2) : a[i].schedTime <= a[i+1].schedTime

\* The schedule arrays of n entries that honour the ordering contract.
SchedArrays(n) == {a \in [0..(n-1) -> Sched] : IsAscending(a, n)}

\* Sched sched[] {{1400, 0}, {1900, 1}};
DeployedSched ==
    (0 :> [schedTime |-> 1400, schedState |-> FALSE]) @@
    (1 :> [schedTime |-> 1900, schedState |-> TRUE])

\* ------------------------------------------------------------------ time

\* TimeLib's hour() and minute() of a time_t (seconds).
hour(t) == (t \div 3600) % 24
minute(t) == (t \div 60) % 60

\* int convertTime(time_t t) {return hour(t)*100 + minute(t);}
convertTime(t) == hour(t) * 100 + minute(t)

\* The time_t values run() is called with: each clock reading at second 0
\* of the first day, and the last second of each minute 59 on the next day.
Epochs ==
    {c[1] * 3600 + c[2] * 60 : c \in Clock}
    \cup {86400 + c[1] * 3600 + c[2] * 60 + 59 : c \in {d \in Clock : d[2] = 59}}

\* ------------------------------------------------------------- callback

\* A callback that drives the indicator and leaves the relay alone.
timerCallbackLedOnly(state) ==
    /\ ledIndicator' = state
    /\ UNCHANGED ssr
    /\ cbCount' = 1
    /\ delivered' = <<state>>

\* void timerCallback(bool state): writes the state to both output pins.
timerCallback(state) ==
    /\ ledIndicator' = state
    /\ ssr' = state
    /\ cbCount' = 1
    /\ delivered' = <<state>>

\* An operation that returns without calling the callback.
NoCallback ==
    /\ UNCHANGED <<ledIndicator, ssr, delivered>>
    /\ cbCount' = 0

\* The Timer as an operation finds it.
Snapshot ==
    [curSched |-> m_curSched, state |-> m_state, manual |-> m_manual,
     delivered |-> delivered, ran |-> ran, ovrToggles |-> ovrToggles]

Min(a, b) == IF a < b THEN a ELSE b

\* ------------------------------------------------------------ Timer::run

\* The indices of the schedule array.
Indices == 0..(m_nsched - 1)

\* The value of run()'s local curSched that no branch has assigned.
Unassigned == -2

\* A scan that takes a schedule only after its minute has passed.
RECURSIVE ScanStrict(_, _)
ScanStrict(s, t) ==
    IF s < 0 THEN Unassigned
    ELSE IF t > sched[s].schedTime THEN s
    ELSE ScanStrict(s - 1, t)

\* for (int s=m_nsched-2; s>=0; --s) if (t >= (m_sched+s)->schedTime)
\*     {curSched = s; break;}
RECURSIVE Scan(_, _)
Scan(s, t) ==
    IF s < 0 THEN Unassigned
    ELSE IF t >= sched[s].schedTime THEN s
    ELSE Scan(s - 1, t)

\* A run() without the test for a time before the earliest schedule.
ResolveNoEarly(t) ==
    IF t >= sched[m_nsched - 1].schedTime
    THEN m_nsched - 1
    ELSE Scan(m_nsched - 2, t)

\* The schedule in effect at t (hhmm), as run() finds it.
Resolve(t) ==
    IF t < sched[0].schedTime \/ t >= sched[m_nsched - 1].schedTime
    THEN m_nsched - 1
    ELSE Scan(m_nsched - 2, t)

\* The values curSched can hold when it is read: what was assigned, or any
\* int near the array when nothing was (an uninitialized local).
CurSchedValues(t) ==
    IF Resolve(t) = Unassigned THEN (NoSched - 1)..m_nsched ELSE {Resolve(t)}

\* (m_sched+i)->schedState; a read outside the array yields either value.
SchedStates(i) ==
    IF i \in Indices THEN {sched[i].schedState} ELSE BOOLEAN

\* A run() that calls back on every call.
ScheduleChangedAlways(c) == TRUE

\* A run() that reacts to a new output state, not to a new schedule.
ScheduleChangedByState(c) == \E st \in SchedStates(c) : st # m_state

\* if (curSched != m_curSched)
ScheduleChanged(c) == c # m_curSched

\* bool Timer::run(time_t epoch)
Run(epoch) ==
    LET t == convertTime(epoch) IN
    \E c \in CurSchedValues(t) :
        /\ curSched' = c
        /\ IF ScheduleChanged(c)
           THEN \E st \in SchedStates(c) :
                    /\ m_curSched' = c
                    /\ m_state' = st
                    /\ timerCallback(st)
           ELSE /\ UNCHANGED <<m_curSched, m_state>>
                /\ NoCallback
        /\ ret' = m_state'
        /\ UNCHANGED <<sched, m_nsched, m_manual>>
        \* history
        /\ lastOp' = "run"
        /\ lastArgs' = <<epoch>>
        /\ sameT' = (lastOp = "run" /\ lastArgs = <<epoch>>)
        /\ ran' = TRUE
        /\ prev' = Snapshot
        /\ ovrToggles' = IF c = m_curSched THEN ovrToggles ELSE 0
        /\ ovrEvals' = IF c = m_curSched /\ ovrToggles > 0
                       THEN Min(ovrEvals + 1, MaxCount) ELSE 0
        /\ UNCHANGED ovrVal

\* --------------------------------------------------------- Timer::toggle

\* The history a toggle() leaves.
ToggleHistory ==
    /\ lastOp' = "toggle"
    /\ lastArgs' = <<>>
    /\ sameT' = FALSE
    /\ prev' = Snapshot
    /\ ovrToggles' = Min(ovrToggles + 1, MaxCount)
    /\ ovrEvals' = 0
    /\ ovrVal' = ~m_state
    /\ UNCHANGED <<curSched, ran>>

\* A toggle() that changes the state and tells nobody.
ToggleSilent ==
    /\ m_state' = ~m_state
    /\ NoCallback
    /\ ret' = m_state'
    /\ UNCHANGED <<sched, m_nsched, m_curSched, m_manual>>
    /\ ToggleHistory

\* A toggle() that calls back before it changes the state.
ToggleStale ==
    /\ timerCallback(m_state)
    /\ m_state' = ~m_state
    /\ ret' = m_state'
    /\ UNCHANGED <<sched, m_nsched, m_curSched, m_manual>>
    /\ ToggleHistory

\* A toggle() that also forgets the schedule in effect.
ToggleResets ==
    /\ m_state' = ~m_state
    /\ timerCallback(m_state')
    /\ ret' = m_state'
    /\ m_curSched' = NoSched
    /\ UNCHANGED <<sched, m_nsched, m_manual>>
    /\ ToggleHistory

\* bool Timer::toggle()
Toggle ==
    /\ m_state' = ~m_state
    /\ timerCallback(m_state')
    /\ ret' = m_state'
    /\ UNCHANGED <<sched, m_nsched, m_curSched, m_manual>>
    /\ ToggleHistory

\* ----------------------------------------------------- Timer::toggleMode

\* The history a toggleMode() leaves.
ToggleModeHistory ==
    /\ lastOp' = "toggleMode"
    /\ lastArgs' = <<>>
    /\ sameT' = FALSE
    /\ prev' = Snapshot
    /\ ovrToggles' = 0
    /\ ovrEvals' = 0
    /\ UNCHANGED <<curSched, ran, ovrVal>>

\* A toggleMode() that calls back only when it changes the output.
ToggleModeIfOn ==
    /\ m_manual' = ~m_manual
    /\ IF m_manual' /\ m_state
       THEN /\ m_state' = FALSE
            /\ timerCallback(FALSE)
       ELSE /\ UNCHANGED m_state
            /\ NoCallback
    /\ ret' = m_manual'
    /\ UNCHANGED <<sched, m_nsched, m_curSched>>
    /\ ToggleModeHistory

\* bool Timer::toggleMode(): changes between automatic and manual mode;
\* manual mode starts with the output off.  Returns TRUE in manual mode.
ToggleMode ==
    /\ m_manual' = ~m_manual
    /\ IF m_manual'
       THEN /\ m_state' = FALSE
            /\ timerCallback(FALSE)
       ELSE /\ UNCHANGED m_state
            /\ NoCallback
    /\ ret' = m_manual'
    /\ UNCHANGED <<sched, m_nsched, m_curSched>>
    /\ ToggleModeHistory

\* ---------------------------------------------------------- specification

\* A Timer that starts with the first schedule in effect.
InitTimerFirstSched ==
    /\ m_nsched \in 1..MaxSched
    /\ sched \in SchedArrays(m_nsched)
    /\ m_curSched = 0
    /\ m_state \in BOOLEAN
    /\ m_manual = FALSE

\* Timer(Sched* sched, int nsched, void (*fcn)(bool)) with m_curSched {-1};
\* m_state has no initializer.  The mode starts automatic.
InitTimer ==
    /\ m_nsched \in 1..MaxSched
    /\ sched \in SchedArrays(m_nsched)
    /\ m_curSched = NoSched
    /\ m_state \in BOOLEAN
    /\ m_manual = FALSE

\* Timer's constructor checks nothing ("No error checking is done"): it
\* takes any array of Sched, in ascending order or not.
InitTimerAny ==
    /\ m_nsched \in 1..MaxSched
    /\ sched \in [0..(m_nsched - 1) -> Sched]
    /\ m_curSched = NoSched
    /\ m_state \in BOOLEAN
    /\ m_manual = FALSE

\* The output pins are low and nothing has run.
InitRest ==
    /\ ledIndicator = FALSE
    /\ ssr = FALSE
    /\ lastOp = "init"
    /\ lastArgs = <<>>
    /\ curSched = NoSched
    /\ cbCount = 0
    /\ delivered = <<>>
    /\ ret = FALSE
    /\ ran = FALSE
    /\ prev = [curSched |-> m_curSched, state |-> m_state, manual |-> m_manual,
               delivered |-> <<>>, ran |-> FALSE, ovrToggles |-> 0]
    /\ sameT = FALSE
    /\ ovrToggles = 0
    /\ ovrEvals = 0
    /\ ovrVal = m_state

\* read() has found no press yet.
NoGesture == [phase |-> "none", long |-> FALSE, toggles |-> 0, modes |-> 0, runs |-> 0]

\* The sketch is not running: a Timer on its own.
NoSketch ==
    /\ isrUTC = 0
    /\ pc = "none"
    /\ loopT = 0
    /\ local = 0
    /\ minLast = 0
    /\ btnPin = FALSE
    /\ btnState = FALSE
    /\ btnChanged = FALSE
    /\ btnLong = FALSE
    /\ ledManual = FALSE
    /\ ticked = FALSE
    /\ loopEv = "none"
    /\ runClock = <<>>
    /\ ranInMinute = FALSE
    /\ enteredByTick = FALSE
    /\ missedMinute = FALSE
    /\ gesture = NoGesture

\* No access to the clock is under way.
NoAccess ==
    /\ intEnabled = TRUE
    /\ tickPending = FALSE
    /\ accPc = "idle"
    /\ utcLo = 0
    /\ utcHi = 0
    /\ got = <<>>
    /\ gotBefore = <<>>
    /\ heldAtCli = 0
    /\ heldAtSei = 0
    /\ tickInAccess = FALSE
    /\ accLast = "none"

\* The state after construction, the schedule array in ascending order.
Init ==
    /\ InitTimer
    /\ InitRest
    /\ NoSketch
    /\ NoAccess

\* The state after construction with any schedule array.
InitAny ==
    /\ InitTimerAny
    /\ InitRest
    /\ NoSketch
    /\ NoAccess

\* run() and nothing else.
NextRun == \E epoch \in Epochs : Run(epoch) /\ UNCHANGED <<loopVars, isrVars, gesture>>

\* A Timer constructed with any array, on which only run() is called.
SpecRunOnly == InitAny /\ [][NextRun]_vars

Next ==
    \/ \E epoch \in Epochs : Run(epoch) /\ UNCHANGED <<loopVars, isrVars, gesture>>
    \/ Toggle /\ UNCHANGED <<loopVars, isrVars, gesture>>
    \/ ToggleMode /\ UNCHANGED <<loopVars, isrVars, gesture>>

Spec == Init /\ [][Next]_vars

\* The time of day (hhmm) of the last run().
LastTime == convertTime(lastArgs[1])

\* ----------------------------------------------------------------- claims

\* The entries of the schedule whose time is not after t (hhmm).
NotAfter(t) == {i \in Indices : sched[i].schedTime <= t}

\* The reference rule: the greatest index whose time is not after t, and
\* the last index when there is none.
InEffect(t) ==
    IF NotAfter(t) = {} THEN m_nsched - 1
    ELSE CHOOSE i \in NotAfter(t) : \A j \in NotAfter(t) : j <= i

\* C1: for every ascending schedule and every time of day in 0..2359, run()
\* resolves to the greatest index whose schedule time is not after the time,
\* and to the last index when there is none; among entries with one time the
\* highest index is resolved.
C1_ResolvesLatestEntry ==
    lastOp = "run" =>
        /\ LastTime \in 0..2359
        /\ curSched = InEffect(LastTime)
        /\ \A i \in Indices :
               sched[i].schedTime = sched[curSched].schedTime => i <= curSched

\* C1 witness: a run() between two schedule times, where the reverse scan
\* passes an entry and stops at the higher of two entries with one time.
C1_Witness ==
    /\ lastOp = "run"
    /\ m_nsched = 3
    /\ sched[0].schedTime = sched[1].schedTime
    /\ sched[1].schedTime < LastTime
    /\ LastTime < sched[2].schedTime
    /\ curSched = 1

\* C2: the first run() after construction calls the callback exactly once,
\* whichever entry resolves; after it m_curSched is an index of the schedule
\* and m_state is the state of the resolved entry.
C2_FirstRunCallsBack ==
    (lastOp = "run" /\ ~prev.ran) =>
        /\ prev.curSched = NoSched
        /\ cbCount = 1
        /\ m_curSched \in Indices
        /\ m_curSched = curSched
        /\ m_state = sched[curSched].schedState
        /\ delivered = <<m_state>>

\* C2 witness: a first run() that resolves the first entry, whose state is
\* the one m_state happened to hold, and still calls back.
C2_Witness ==
    /\ lastOp = "run"
    /\ ~prev.ran
    /\ curSched = 0
    /\ prev.state = m_state
    /\ cbCount = 1

\* C3: in automatic mode a run() calls the callback if and only if the
\* resolved index differs from m_curSched, never more than once; when it does
\* it sets m_curSched to the resolved index and m_state to that entry's state
\* and delivers that value; when the resolved index is unchanged it changes
\* nothing and delivers nothing, so the second of two run() calls with one
\* time never calls back.
C3_CallbackIffNewSchedule ==
    (lastOp = "run" /\ ~prev.manual) =>
        /\ cbCount \in 0..1
        /\ (cbCount = 1) <=> (curSched # prev.curSched)
        /\ curSched # prev.curSched =>
               /\ m_curSched = curSched
               /\ m_state = sched[curSched].schedState
               /\ delivered = <<m_state>>
        /\ curSched = prev.curSched =>
               /\ m_curSched = prev.curSched
               /\ m_state = prev.state
               /\ m_manual = prev.manual
               /\ delivered = prev.delivered
        /\ sameT => cbCount = 0

\* C3 witness: in automatic mode, a second run() with the time of the run()
\* before it, which calls nothing.
C3_Witness ==
    /\ lastOp = "run"
    /\ ~prev.manual
    /\ sameT
    /\ curSched = prev.curSched
    /\ cbCount = 0

C5_ToggleNegates ==
    (lastOp = "toggle" /\ prev.ran) =>
        /\ m_state = ~prev.state
        /\ cbCount = 1
        /\ delivered = <<m_state>>
        /\ ledIndicator = m_state
        /\ ssr = m_state
        /\ ret = m_state

\* C5 witness: a toggle() in manual mode, after a run(), that turns the
\* output on.
C5_Witness ==
    /\ lastOp = "toggle"
    /\ prev.ran
    /\ m_manual
    /\ m_state
    /\ ~prev.state

\* C6: toggle() leaves m_curSched, the mode and the schedule unchanged.
C6_ToggleFrame ==
    [][lastOp' = "toggle" =>
          UNCHANGED <<sched, m_nsched, m_curSched, m_manual>>]_vars

\* C6 witness: a toggle() with a schedule in effect; the state changed and
\* the schedule in effect did not.
C6_Witness ==
    /\ lastOp = "toggle"
    /\ m_curSched \in Indices
    /\ m_curSched = prev.curSched
    /\ m_manual = prev.manual
    /\ m_state # prev.state

\* C7: in automatic mode, after a toggle(), as long as every run() resolves
\* the index in m_curSched, m_state stays at the value the toggle() set and
\* no run() calls back, however many run() calls there are.
C7_OverrideKept ==
    (~m_manual /\ ovrToggles > 0) =>
        /\ m_state = ovrVal
        /\ delivered = <<ovrVal>>
        /\ (lastOp = "run") => (cbCount = 0 /\ m_state = prev.state)

\* C7 witness: in automatic mode, an override that differs from the state of
\* the schedule in effect, still in place after MaxCount or more run() calls.
C7_Witness ==
    /\ ~m_manual
    /\ ovrToggles > 0
    /\ ovrEvals = MaxCount
    /\ lastOp = "run"
    /\ m_curSched \in Indices
    /\ m_state # sched[m_curSched].schedState

\* C8: in automatic mode, after any number of toggle() calls, a run() that
\* resolves an index other than m_curSched sets m_state to the state of the
\* resolved entry and delivers it through the callback.
C8_ScheduleResumes ==
    (lastOp = "run" /\ ~prev.manual /\ curSched # prev.curSched) =>
        /\ m_curSched = curSched
        /\ m_state = sched[curSched].schedState
        /\ cbCount = 1
        /\ delivered = <<m_state>>
        /\ ledIndicator = m_state
        /\ ssr = m_state
        /\ ret = m_state
        /\ ovrToggles = 0

\* C8 witness: after MaxCount or more toggle() calls with a schedule in
\* effect, a run() resolves another index and the output leaves the
\* overridden value for the state of the new entry.
C8_Witness ==
    /\ lastOp = "run"
    /\ ~prev.manual
    /\ prev.curSched \in Indices
    /\ prev.ovrToggles = MaxCount
    /\ curSched # prev.curSched
    /\ m_state # prev.state
    /\ m_state = sched[curSched].schedState

\* C9 as stated, of a Timer that has run before: in manual mode no run()
\* calls the callback or changes m_state.
C9_ManualSuppressesRun ==
    (lastOp = "run" /\ prev.manual /\ prev.ran) =>
        /\ cbCount = 0
        /\ m_state = prev.state
        /\ delivered = prev.delivered

\* C10: a toggleMode() that leaves automatic mode for manual mode sets
\* m_state to false and calls the callback with false, also when m_state was
\* false already.
C10_ManualStartsOff ==
    (lastOp = "toggleMode" /\ ~prev.manual) =>
        /\ m_manual
        /\ ret
        /\ m_state = FALSE
        /\ cbCount = 1
        /\ delivered = <<FALSE>>
        /\ ledIndicator = FALSE
        /\ ssr = FALSE

\* C10 witness: a toggleMode() into manual mode, after a run(), with the
\* output off before it: the callback is called all the same.
C10_Witness ==
    /\ lastOp = "toggleMode"
    /\ ~prev.manual
    /\ prev.ran
    /\ prev.state = FALSE
    /\ prev.delivered = <<FALSE>>
    /\ cbCount = 1

\* C13: between operations, once run() has been called, m_state is the value
\* last passed to the callback and both the relay pin and the indicator pin
\* hold that value; the two pins never differ.
C13_OutputIsDelivered ==
    /\ ssr = ledIndicator
    /\ ran =>
           /\ delivered = <<m_state>>
           /\ ssr = m_state
           /\ ledIndicator = m_state
    /\ (lastOp # "init" /\ m_state # prev.state) => cbCount = 1

\* C13 witness: after a run(), an override and a change to manual mode, the
\* output is off and both pins are low.
C13_Witness ==
    /\ ran
    /\ lastOp = "toggleMode"
    /\ m_manual
    /\ prev.ovrToggles > 0
    /\ prev.state
    /\ ~m_state
    /\ ~ssr
    /\ ~ledIndicator

\* The schedule array breaks the ordering contract.
Unsorted == ~IsAscending(sched, m_nsched)

C15_IndexInBounds ==
    /\ m_curSched \in {NoSched} \cup Indices
    /\ lastOp = "run" =>
           /\ Resolve(LastTime) # Unassigned
           /\ curSched = Resolve(LastTime)
           /\ curSched \in Indices
           /\ m_curSched = curSched

\* C15 witness: on an array out of order the reverse scan has resolved an
\* entry that is not the latest one before the time.
C15_Witness ==
    /\ Unsorted
    /\ m_nsched = 3
    /\ lastOp = "run"
    /\ curSched < m_nsched - 1
    /\ \E i \in Indices :
           /\ sched[i].schedTime <= LastTime
           /\ sched[i].schedTime > sched[curSched].schedTime

\* C20: in automatic mode, when only run() is called, after every run(t) on
\* an array in ascending order m_state is the state of the schedule in
\* effect at t, whatever the order of the times.
C20_OutputFollowsSchedule ==
    (~Unsorted /\ lastOp = "run") =>
        /\ ~m_manual
        /\ m_state = sched[InEffect(LastTime)].schedState
        /\ ret = m_state
        /\ delivered = <<m_state>>

\* C20 witness: a run() with an earlier time than the run() before it puts
\* an earlier entry with the same state in effect.
C20_Witness ==
    /\ ~Unsorted
    /\ m_nsched = 3
    /\ lastOp = "run"
    /\ prev.curSched = 1
    /\ curSched = 0
    /\ cbCount = 1
    /\ m_state = prev.state

\* ---------------------------------------------------------------------------
\* The sketch: the 1 Hz clock, loop() and the push button.

\* US Eastern daylight time, in minutes from UTC.
UtcOffset == -240

\* Eastern.toLocal() while daylight time is in force.
toLocal(utc) == utc + UtcOffset * 60

\* The clock when loop() is first entered: 18:59:58 local time, two seconds
\* before the deployed schedule turns the outlet on.
StartUTC == 22 * 3600 + 59 * 60 + 58

\* The times setRTC() can be given over the serial line.
SetTimes == {StartUTC}

\* loop()'s static minLast before the first pass.
MinLastInit == 99

\* static int minLast {99}
InitGate == minLast = MinLastInit

\* The global Timer of the sketch: the deployed schedule, and m_state zero as
\* an object of static storage duration is before its constructor runs.
InitSketchTimer ==
    /\ m_nsched = 2
    /\ sched = DeployedSched
    /\ m_curSched = NoSched
    /\ m_state = FALSE
    /\ m_manual = FALSE

\* The state when loop() is first entered: the time set from the RTC, the
\* button read once by begin(), held down or not.
InitSketchFrom(start) ==
    /\ InitSketchTimer
    /\ InitRest
    /\ NoAccess
    /\ isrUTC = start
    /\ pc = "sample"
    /\ loopT = 0
    /\ local = 0
    /\ InitGate
    /\ btnPin \in BOOLEAN
    /\ btnState = btnPin
    /\ btnChanged = FALSE
    /\ btnLong = FALSE
    /\ ledManual = FALSE
    /\ ticked = FALSE
    /\ loopEv = "none"
    /\ runClock = <<>>
    /\ ranInMinute = FALSE
    /\ enteredByTick = FALSE
    /\ missedMinute = FALSE
    /\ gesture = [NoGesture EXCEPT !.phase = IF btnPin THEN "open" ELSE "none"]

\* The state when loop() is first entered at 18:59:58 local time.
InitSketch == InitSketchFrom(StartUTC)

\* incrementTime(), the 1 Hz interrupt. Apart from the wait for the button's
\* release a pass of loop() takes far less than a second, so that the clock
\* ticks once in a pass at most.
TickFrom(start, limit) ==
    /\ start <= isrUTC
    /\ isrUTC < start + limit
    /\ pc = "wait" \/ ~ticked
    /\ isrUTC' = isrUTC + 1
    /\ ticked' = TRUE
    /\ IF (isrUTC + 1) \div 60 # isrUTC \div 60
       THEN /\ missedMinute' = (missedMinute \/ (enteredByTick /\ ~ranInMinute))
            /\ enteredByTick' = TRUE
            /\ ranInMinute' = FALSE
       ELSE UNCHANGED <<missedMinute, enteredByTick, ranInMinute>>
    /\ UNCHANGED <<engineVars, pc, loopT, local, minLast, buttonVars, ledManual,
                   loopEv, runClock>>

\* incrementTime(), followed for so many ticks from 18:59:58 local time.
Tick(limit) == TickFrom(StartUTC, limit)

\* The button is pushed down.
Press ==
    /\ ~btnPin
    /\ btnPin' = TRUE
    /\ UNCHANGED <<engineVars, clockVars, pc, loopT, local, minLast, btnState,
                   btnChanged, btnLong, ledManual, ticked, loopEv, runClock>>

\* The button is let go.
Release ==
    /\ btnPin
    /\ btnPin' = FALSE
    /\ UNCHANGED <<engineVars, clockVars, pc, loopT, local, minLast, btnState,
                   btnChanged, btnLong, ledManual, ticked, loopEv, runClock>>

\* 1000 ms pass with the button in the pressed state that read() found.
HoldElapses ==
    /\ btnState
    /\ ~btnLong
    /\ btnLong' = TRUE
    /\ UNCHANGED <<engineVars, clockVars, pc, loopT, local, minLast, btnPin,
                   btnState, btnChanged, ledManual, ticked, loopEv, runClock>>

\* btnOverride.read()
read ==
    /\ btnState' = btnPin
    /\ btnChanged' = (btnPin # btnState)
    /\ btnLong' = (btnPin = btnState /\ btnLong)
    /\ UNCHANGED btnPin

\* timer.run(local) as loop() calls it.
LoopRun(ev) ==
    /\ Run(local)
    /\ loopEv' = ev
    /\ runClock' = <<convertTime(toLocal(isrUTC))>>
    /\ ranInMinute' = (ranInMinute \/ local \div 60 = toLocal(isrUTC) \div 60)
    /\ UNCHANGED <<isrUTC, enteredByTick, missedMinute>>

\* time_t t = getUTC(); time_t local = Eastern.toLocal(t, &tcr);
Sample ==
    /\ pc = "sample"
    /\ loopT' = isrUTC
    /\ local' = toLocal(isrUTC)
    /\ ticked' = FALSE
    /\ pc' = "gate"
    /\ UNCHANGED <<engineVars, clockVars, minLast, buttonVars, ledManual, loopEv,
                   runClock>>

\* A gate that opens only when the minute has grown.
GateOpenLater == minute(loopT) > minLast

\* minNow != minLast
GateOpen == minute(loopT) # minLast

\* "run the timer once per minute"
Gate ==
    /\ pc = "gate"
    /\ IF GateOpen
       THEN /\ minLast' = minute(loopT)
            /\ LoopRun("gateRun")
       ELSE UNCHANGED <<engineVars, clockVars, minLast, loopEv, runClock>>
    /\ pc' = "button"
    /\ UNCHANGED <<loopT, local, buttonVars, ledManual, ticked>>

\* A long press that leaves the manual mode indicator alone.
LongPressNoLed ==
    /\ ToggleMode
    /\ UNCHANGED ledManual

\* digitalWrite(ledManual, timer.toggleMode());
LongPress ==
    /\ ToggleMode
    /\ ledManual' = ret'

\* btnOverride.read() and the action the button asks for.
Button ==
    /\ pc = "button"
    /\ read
    /\ IF ~btnState' /\ btnChanged'
       THEN /\ Toggle
            /\ loopEv' = "toggle"
            /\ pc' = "serial"
            /\ UNCHANGED ledManual
       ELSE IF btnState' /\ btnLong'
       THEN /\ LongPress
            /\ loopEv' = "toggleMode"
            /\ pc' = "wait"
       ELSE /\ pc' = "serial"
            /\ UNCHANGED <<engineVars, ledManual, loopEv>>
    /\ UNCHANGED <<clockVars, loopT, local, minLast, ticked, runClock>>

\* A wait for the release that leaves btnOverride as the last read() of
\* loop() left it.
WaitReleaseNoRead ==
    /\ pc = "wait"
    /\ ~btnPin
    /\ UNCHANGED buttonVars
    /\ LoopRun("modeRun")
    /\ pc' = "serial"
    /\ UNCHANGED <<loopT, local, minLast, ledManual, ticked>>

\* while (btnOverride.isPressed()) btnOverride.read(); timer.run(local);
WaitRelease ==
    /\ pc = "wait"
    /\ ~btnPin
    /\ read
    /\ LoopRun("modeRun")
    /\ pc' = "serial"
    /\ UNCHANGED <<loopT, local, minLast, ledManual, ticked>>

\* if (Serial.available()) setRTC(): nothing has come in.
SerialIdle ==
    /\ pc = "serial"
    /\ pc' = "sample"
    /\ UNCHANGED <<engineVars, clockVars, loopT, local, minLast, buttonVars,
                   ledManual, ticked, loopEv, runClock>>

\* if (Serial.available()) setRTC(): a command that sets the time.
SerialSet ==
    /\ pc = "serial"
    /\ \E utc \in SetTimes : isrUTC' = utc
    /\ ranInMinute' = FALSE
    /\ enteredByTick' = FALSE
    /\ pc' = "sample"
    /\ UNCHANGED <<engineVars, missedMinute, loopT, local, minLast, buttonVars,
                   ledManual, ticked, loopEv, runClock>>

\* One more, up to where the history counters saturate.
Inc(n) == Min(n + 1, MaxCount)

\* History of the gesture, for the read() of loop() and what follows it: a
\* press that read() finds starts a gesture, a release that it finds ends it.
ButtonGesture ==
    gesture' =
        IF btnState' /\ btnChanged'
        THEN [NoGesture EXCEPT !.phase = "open"]
        ELSE IF ~btnState' /\ btnChanged'
        THEN [gesture EXCEPT !.phase = "closed", !.toggles = Inc(@)]
        ELSE IF btnState' /\ btnLong'
        THEN [gesture EXCEPT !.long = TRUE, !.modes = Inc(@)]
        ELSE gesture

\* History of the gesture, for the end of the wait for the release.
WaitGesture ==
    gesture' = [gesture EXCEPT !.phase = "closed", !.runs = Inc(@)]

NextLoop ==
    \/ Tick(MaxTicks) /\ UNCHANGED <<isrVars, gesture>>
    \/ Press /\ UNCHANGED <<isrVars, gesture>>
    \/ Release /\ UNCHANGED <<isrVars, gesture>>
    \/ HoldElapses /\ UNCHANGED <<isrVars, gesture>>
    \/ Sample /\ UNCHANGED <<isrVars, gesture>>
    \/ Gate /\ UNCHANGED <<isrVars, gesture>>
    \/ Button /\ ButtonGesture /\ UNCHANGED isrVars
    \/ WaitRelease /\ WaitGesture /\ UNCHANGED isrVars
    \/ SerialIdle /\ UNCHANGED <<isrVars, gesture>>
    \/ SerialSet /\ UNCHANGED <<isrVars, gesture>>

\* The sketch from the first pass of loop() on.
SpecLoop == InitSketch /\ [][NextLoop]_vars

\* The button is pushed down in automatic mode.
PressInAuto ==
    /\ ~m_manual
    /\ Press

NextHold ==
    \/ Tick(MaxHold) /\ UNCHANGED <<isrVars, gesture>>
    \/ PressInAuto /\ UNCHANGED <<isrVars, gesture>>
    \/ Release /\ UNCHANGED <<isrVars, gesture>>
    \/ HoldElapses /\ UNCHANGED <<isrVars, gesture>>
    \/ Sample /\ UNCHANGED <<isrVars, gesture>>
    \/ Gate /\ UNCHANGED <<isrVars, gesture>>
    \/ Button /\ ButtonGesture /\ UNCHANGED isrVars
    \/ WaitRelease /\ WaitGesture /\ UNCHANGED isrVars
    \/ SerialIdle /\ UNCHANGED <<isrVars, gesture>>

\* The sketch over more than a minute, the button pushed in automatic mode
\* only and nothing coming in over the serial line.
SpecHold == InitSketch /\ [][NextHold]_vars

\* ---------------------------------------------------------------------------
\* Claims about the sketch.

\* C11: when a long press has brought the timer back to automatic mode and
\* loop() has called run(local), m_state is the state of the schedule in
\* effect at that time, whatever happened in manual mode.
C11_AutoFollowsSchedule ==
    (loopEv = "modeRun" /\ lastOp = "run" /\ ~m_manual) =>
        m_state = sched[InEffect(LastTime)].schedState

\* C12: the mode starts as automatic, every toggleMode() flips it and returns
\* the new mode, and the manual mode indicator is on exactly in manual mode.
C12_LedShowsMode ==
    /\ ledManual = m_manual
    /\ lastOp = "init" => ~m_manual
    /\ lastOp = "toggleMode" =>
           /\ m_manual = ~prev.manual
           /\ ret = m_manual
           /\ ledManual = ret

\* C12 witness: a second long press has put the timer back in automatic mode
\* and the indicator is off again.
C12_Witness ==
    /\ lastOp = "toggleMode"
    /\ loopEv = "toggleMode"
    /\ prev.manual
    /\ ~m_manual
    /\ ~ledManual

\* C16: after toggleMode() the next call loop() makes on the timer is run(),
\* and the time it passes is the clock's local time when it is called.
C16_RunWithCurrentTime ==
    /\ lastOp = "toggleMode" => pc = "wait"
    /\ loopEv = "modeRun" => (lastOp = "run" /\ <<LastTime>> = runClock)

\* C17: a tick never takes the clock out of a minute that it entered by a
\* tick and in which run() was not called with a time of that minute.
C17_RunEveryMinute == ~missedMinute

\* C19: run() is the first call loop() makes on the timer, so toggle() and
\* toggleMode() are not called before m_state and m_curSched are set.
C19_RunComesFirst ==
    /\ pc \in {"button", "wait", "serial"} => ran
    /\ ~ran => (lastOp = "init" /\ m_curSched = NoSched /\ minLast = MinLastInit)
    /\ lastOp \in {"toggle", "toggleMode"} =>
           (prev.ran /\ prev.curSched \in Indices)

\* C19 witness: the button is let go during the first second and toggle() is
\* called, after the run() of the first pass.
C19_Witness ==
    /\ lastOp = "toggle"
    /\ loopEv = "toggle"
    /\ prev.ran
    /\ isrUTC = StartUTC
    /\ minLast = minute(StartUTC)

\* ---------------------------------------------------------------------------
\* The accesses to the clock, step by step. isrUTC is wider than what the
\* processor reads or writes at once: it is read and written in two parts.

\* What the low part of isrUTC counts up to.
Radix == 2 * 2

\* The values setUTC() can be given.
ClockValues == 0..MaxIsr

\* The sketch stands still but for its accesses to the clock.
ClockOnly ==
    UNCHANGED <<engineVars, pc, loopT, local, minLast, buttonVars, ledManual,
                ticked, loopEv, runClock, ranInMinute, enteredByTick,
                missedMinute, gesture>>

\* The RTC's 1 Hz output raises the interrupt.
RtcPulse ==
    /\ isrUTC < MaxIsr
    /\ ~tickPending
    /\ tickPending' = TRUE
    /\ UNCHANGED <<isrUTC, intEnabled, accPc, utcLo, utcHi, got, gotBefore,
                   heldAtCli, heldAtSei, tickInAccess, accLast>>
    /\ ClockOnly

\* incrementTime(), served when interrupts are enabled.
incrementTime ==
    /\ tickPending
    /\ intEnabled
    /\ tickPending' = FALSE
    /\ isrUTC' = isrUTC + 1
    /\ tickInAccess' = (tickInAccess \/ accPc # "idle")
    /\ UNCHANGED <<intEnabled, accPc, utcLo, utcHi, got, gotBefore, heldAtCli,
                   heldAtSei, accLast>>
    /\ ClockOnly

\* An access that starts with interrupts left enabled.
NoInterruptsForgotten(next) ==
    /\ accPc = "idle"
    /\ accPc' = next
    /\ heldAtCli' = isrUTC
    /\ UNCHANGED intEnabled

\* noInterrupts();
noInterrupts(next) ==
    /\ accPc = "idle"
    /\ accPc' = next
    /\ heldAtCli' = isrUTC
    /\ intEnabled' = FALSE

\* getUTC(): noInterrupts();
GetBegin ==
    /\ noInterrupts("getLo")
    /\ UNCHANGED <<isrUTC, tickPending, utcLo, utcHi, got, gotBefore, heldAtSei,
                   tickInAccess, accLast>>
    /\ ClockOnly

\* getUTC(): time_t utc = isrUTC; the low part.
GetLo ==
    /\ accPc = "getLo"
    /\ utcLo' = isrUTC % Radix
    /\ accPc' = "getHi"
    /\ UNCHANGED <<isrUTC, intEnabled, tickPending, utcHi, got, gotBefore,
                   heldAtCli, heldAtSei, tickInAccess, accLast>>
    /\ ClockOnly

\* getUTC(): time_t utc = isrUTC; the high part.
GetHi ==
    /\ accPc = "getHi"
    /\ utcHi' = isrUTC \div Radix
    /\ accPc' = "getEnd"
    /\ UNCHANGED <<isrUTC, intEnabled, tickPending, utcLo, got, gotBefore,
                   heldAtCli, heldAtSei, tickInAccess, accLast>>
    /\ ClockOnly

\* getUTC(): interrupts(); return utc;
GetEnd ==
    /\ accPc = "getEnd"
    /\ intEnabled' = TRUE
    /\ got' = <<utcHi * Radix + utcLo>>
    /\ gotBefore' = got
    /\ heldAtSei' = isrUTC
    /\ accLast' = "get"
    /\ accPc' = "idle"
    /\ UNCHANGED <<isrUTC, tickPending, utcLo, utcHi, heldAtCli, tickInAccess>>
    /\ ClockOnly

\* setUTC(utc): noInterrupts();
SetBegin ==
    /\ noInterrupts("setLo")
    /\ \E utc \in ClockValues :
           /\ utcLo' = utc % Radix
           /\ utcHi' = utc \div Radix
    /\ UNCHANGED <<isrUTC, tickPending, got, gotBefore, heldAtSei, tickInAccess,
                   accLast>>
    /\ ClockOnly

\* setUTC(utc): isrUTC = utc; the low part.
SetLo ==
    /\ accPc = "setLo"
    /\ isrUTC' = (isrUTC \div Radix) * Radix + utcLo
    /\ accPc' = "setHi"
    /\ UNCHANGED <<intEnabled, tickPending, utcLo, utcHi, got, gotBefore,
                   heldAtCli, heldAtSei, tickInAccess, accLast>>
    /\ ClockOnly

\* setUTC(utc): isrUTC = utc; the high part.
SetHi ==
    /\ accPc = "setHi"
    /\ isrUTC' = utcHi * Radix + (isrUTC % Radix)
    /\ accPc' = "setEnd"
    /\ UNCHANGED <<intEnabled, tickPending, utcLo, utcHi, got, gotBefore,
                   heldAtCli, heldAtSei, tickInAccess, accLast>>
    /\ ClockOnly

\* setUTC(utc): interrupts();
SetEnd ==
    /\ accPc = "setEnd"
    /\ intEnabled' = TRUE
    /\ got' = <<>>
    /\ gotBefore' = <<>>
    /\ heldAtSei' = isrUTC
    /\ accLast' = "set"
    /\ accPc' = "idle"
    /\ UNCHANGED <<isrUTC, tickPending, utcLo, utcHi, heldAtCli, tickInAccess>>
    /\ ClockOnly

NextIsr ==
    \/ RtcPulse
    \/ incrementTime
    \/ GetBegin
    \/ GetLo
    \/ GetHi
    \/ GetEnd
    \/ SetBegin
    \/ SetLo
    \/ SetHi
    \/ SetEnd

\* The sketch before loop() is entered, the clock at zero.
InitIsr ==
    /\ InitSketchTimer
    /\ InitRest
    /\ NoSketch
    /\ NoAccess

\* The clock and its accesses from loop() and setRTC().
SpecIsr == InitIsr /\ [][NextIsr]_vars

\* C18: isrUTC is read and written by getUTC() and setUTC() with interrupts
\* disabled, incrementTime() never runs inside them, getUTC() returns a value
\* isrUTC held, the values it returns between two setUTC() never go down,
\* and setUTC() leaves isrUTC at the value it was given.
C18_ClockAccessAtomic ==
    /\ accPc # "idle" => ~intEnabled
    /\ ~tickInAccess
    /\ (accLast = "get" /\ accPc = "idle") =>
           (got = <<heldAtCli>> /\ got = <<heldAtSei>>)
    /\ (got # <<>> /\ gotBefore # <<>>) => gotBefore[1] <= got[1]
    /\ (accLast = "set" /\ accPc = "idle") => heldAtSei = utcHi * Radix + utcLo

\* C18 witness: the interrupt was raised while getUTC() read isrUTC, whose
\* low part was about to wrap, and was served after getUTC() had returned.
C18_Witness ==
    /\ accLast = "get"
    /\ accPc = "idle"
    /\ gotBefore # <<>>
    /\ got = <<Radix - 1>>
    /\ isrUTC = Radix
    /\ ~tickPending

\* ---------------------------------------------------------------------------
\* Claims about the push button.

StartTimes == {StartUTC, StartUTC - 5 * 3600}

\* The state when loop() is first entered.
InitOverride == \E start \in StartTimes : InitSketchFrom(start)

\* incrementTime()
ClockStep ==
    \E start \in StartTimes :
        TickFrom(start, MaxTicks) /\ UNCHANGED <<isrVars, gesture>>

\* A pass of loop(), step by step.
LoopStep ==
    \/ Sample /\ UNCHANGED <<isrVars, gesture>>
    \/ Gate /\ UNCHANGED <<isrVars, gesture>>
    \/ Button /\ ButtonGesture /\ UNCHANGED isrVars
    \/ SerialIdle /\ UNCHANGED <<isrVars, gesture>>

NextOverride ==
    \/ ClockStep
    \/ LoopStep
    \/ Press /\ UNCHANGED <<isrVars, gesture>>
    \/ Release /\ UNCHANGED <<isrVars, gesture>>

SpecOverride ==
    /\ InitOverride
    /\ [][NextOverride]_vars
    /\ WF_vars(ClockStep)
    /\ WF_vars(LoopStep)

\* The clock is followed up to this value.
InWindow(utc) == \E start \in StartTimes : start <= utc /\ utc <= start + MaxTicks

\* The schedule in effect when the clock shows utc.
Entry(utc) == InEffect(convertTime(toLocal(utc)))

\* The clock is going to pass a time of the schedule.
SchedTimeAhead ==
    \E k \in 1..MaxTicks :
        /\ InWindow(isrUTC + k)
        /\ Entry(isrUTC + k) # Entry(isrUTC)

\* The output is not what the schedule that run() applied last asks for.
Overridden ==
    /\ ran
    /\ ~m_manual
    /\ m_curSched \in Indices
    /\ m_state # sched[m_curSched].schedState

\* run() has applied the schedule in effect now and the output is its state.
ScheduleInControl ==
    /\ ran
    /\ m_curSched \in Indices
    /\ m_curSched = Entry(isrUTC)
    /\ m_state = sched[m_curSched].schedState

\* C22: with the deployed schedule, in automatic mode, an override in force
\* before a time of the schedule leads to a state in which the output is
\* the state of the schedule in effect at the time the clock shows.
C22_OverrideUndone == (Overridden /\ SchedTimeAhead) ~> ScheduleInControl

\* C22 witness: the output was overridden before 14:00, the clock has passed
\* 14:00 and the run() of that minute has applied the 14:00 schedule.
C22_Witness ==
    /\ lastOp = "run"
    /\ loopEv = "gateRun"
    /\ LastTime = 1400
    /\ prev.ran
    /\ prev.curSched = 1
    /\ ~prev.state
    /\ m_curSched = 0
    /\ ScheduleInControl
    /\ ~SchedTimeAhead

====
